---------------------------- MODULE Spec2Model ----------------------------
(***************************************************************************)
(* A model of main.py, the Google-Form filler: the preference match, the   *)
(* single-choice and multi-choice selection policies, the CSV response log *)
(* and the pass loop of main.                                              *)
(*                                                                         *)
(* Texts (option texts, question titles, answers, CSV cells) are sequences *)
(* of one-character strings, so that lower(), strip(), the substring test  *)
(* `in` and "; ".join are computed character by character.                 *)
(***************************************************************************)
EXTENDS Integers, Sequences, FiniteSets, TLC

(***************************************************************************)
(* Bounds of the model.                                                    *)
(***************************************************************************)
MaxOptions == 3
MaxAppends == 3
MaxCount == 2

(***************************************************************************)
(* Python str operations.                                                  *)
(***************************************************************************)
Uppers == <<"A", "B", "C", "D", "E", "F", "G", "H", "I", "J", "K", "L", "M",
            "N", "O", "P", "Q", "R", "S", "T", "U", "V", "W", "X", "Y", "Z">>
Lowers == <<"a", "b", "c", "d", "e", "f", "g", "h", "i", "j", "k", "l", "m",
            "n", "o", "p", "q", "r", "s", "t", "u", "v", "w", "x", "y", "z">>

Whitespace == {" ", "\t", "\n"}

\* str.lower() on one character
LowerChar(c) ==
    IF \E n \in 1..Len(Uppers) : Uppers[n] = c
    THEN Lowers[CHOOSE n \in 1..Len(Uppers) : Uppers[n] = c]
    ELSE c

\* str.lower()
Lower(s) == [n \in 1..Len(s) |-> LowerChar(s[n])]

RECURSIVE LStrip(_)
LStrip(s) == IF s # <<>> /\ Head(s) \in Whitespace THEN LStrip(Tail(s)) ELSE s

RECURSIVE RStrip(_)
RStrip(s) ==
    IF s # <<>> /\ s[Len(s)] \in Whitespace
    THEN RStrip(SubSeq(s, 1, Len(s) - 1))
    ELSE s

\* str.strip()
Strip(s) == RStrip(LStrip(s))

\* x in y, for two strings: y holds x at some offset
In(x, y) ==
    \E off \in 0..(Len(y) - Len(x)) : SubSeq(y, off + 1, off + Len(x)) = x

\* x in buffer, for a list
InList(x, list) == \E n \in 1..Len(list) : list[n] = x

RECURSIVE Join(_, _)
\* sep.join(list)
Join(sep, list) ==
    IF list = <<>> THEN <<>>
    ELSE IF Len(list) = 1 THEN list[1]
    ELSE list[1] \o sep \o Join(sep, Tail(list))

(***************************************************************************)
(* Program constants.                                                      *)
(***************************************************************************)
PRIORITIZED_CHOICES ==
    { <<"F", "e", "m", "a", "l", "e">>,
      <<"1", "8", "-", "2", "4">>,
      <<"O", "t", "h", "e", "r", " ", "c", "o", "u", "n", "t", "r", "y">>,
      <<"S", "e", "v", "e", "r", "a", "l", " ", "t", "i", "m", "e", "s", " ",
        "a", " ", "m", "o", "n", "t", "h">>,
      <<"A", "g", "r", "e", "e">>,
      <<"L", "i", "k", "e", "l", "y">>,
      <<"M", "a", "i", "n", "l", "y", " ", "f", "o", "r", "e", "i", "g", "n",
        " ", "b", "r", "a", "n", "d", "s">>,
      <<"N", "e", "u", "t", "r", "a", "l">>,
      <<"4">>,
      <<"3">> }

\* random() in tenths: the draws 0.0, 0.1, ..., 0.9
RandomDraws == 0..9
\* PRIORITY_PROBABILITY = 0.6, in tenths
PRIORITY_PROBABILITY == 6
\* the 0.3 of the extension gate, in tenths
EXTENSION_PROBABILITY == 3

UnknownQuestion ==
    <<"U", "n", "k", "n", "o", "w", "n", " ", "Q", "u", "e", "s", "t", "i", "o", "n">>

\* the 'Timestamp' column name
TimestampColumn == <<"T", "i", "m", "e", "s", "t", "a", "m", "p">>

\* the "; " of the multi-choice answer
AnswerSeparator == <<";", " ">>

(***************************************************************************)
(* The preference match.                                                   *)
(***************************************************************************)
\* a mutant: the option text is not lower-cased
PrioritizedMatchCaseSensitive(prioritized, option_text) ==
    \/ In(Lower(prioritized), option_text)
    \/ In(option_text, Lower(prioritized))

\* the test of find_prioritized_option
PrioritizedMatch(prioritized, option_text) ==
    \/ In(Lower(prioritized), Lower(option_text))
    \/ In(Lower(option_text), Lower(prioritized))

\* the test of select_multi_option's first loop
MultiPrioritizedMatch(prioritized, option_text) ==
    \/ In(Lower(prioritized), Lower(option_text))
    \/ In(Lower(option_text), Lower(prioritized))

RECURSIVE FindFrom(_, _, _)
FindFrom(options, n, choices) ==
    IF n > Len(options) THEN 0
    ELSE IF \E prioritized \in choices :
                PrioritizedMatch(prioritized, Strip(options[n]))
         THEN n
         ELSE FindFrom(options, n + 1, choices)

\* a mutant: the scan keeps the last match
FindLastPrioritized(options, choices) ==
    IF \E n \in 1..Len(options) : FindFrom(<<options[n]>>, 1, choices) = 1
    THEN CHOOSE n \in 1..Len(options) :
            /\ FindFrom(<<options[n]>>, 1, choices) = 1
            /\ \A m \in (n + 1)..Len(options) : FindFrom(<<options[m]>>, 1, choices) = 0
    ELSE 0

\* find_prioritized_option: the index of the option returned, 0 for None
find_prioritized_option(options, choices) == FindFrom(options, 1, choices)

\* the prioritized choices the first loop of select_multi_option finds to
\* match option_text (the text already stripped)
MultiMatching(option_text, choices) ==
    { prioritized \in choices : MultiPrioritizedMatch(prioritized, option_text) }

(***************************************************************************)
(* The state.                                                              *)
(***************************************************************************)
VARIABLES
    \* one evaluation of the preference match
    m_pc, m_text, m_choices, m_single, m_multi,
    \* one call of select_option (and of select_multi_option under it)
    field, spc, gate, via, selected, clicks, buffer, prioritized_selected,
    remaining_count, k, multi_calls, ret, exc,
    \* the log file form_responses.csv
    file_exists, csv,
    \* main
    pc, count, i, all_fields, fidx, form_data, driver, crash, events,
    interrupted

matchVars == <<m_pc, m_text, m_choices, m_single, m_multi>>
selVars == <<field, spc, gate, via, selected, clicks, buffer,
             prioritized_selected, remaining_count, k, multi_calls, ret, exc>>
csvVars == <<file_exists, csv>>
mainVars == <<pc, count, i, all_fields, fidx, form_data, driver, crash,
              events, interrupted>>
vars == <<matchVars, selVars, csvVars, mainVars>>

(***************************************************************************)
(* Texts the form may show.                                                *)
(***************************************************************************)
StronglyAgree == <<"S", "t", "r", "o", "n", "g", "l", "y", " ", "A", "g", "r", "e", "e">>
Agree == <<"A", "g", "r", "e", "e">>
Neutral == <<"N", "e", "u", "t", "r", "a", "l">>
Disagree == <<"D", "i", "s", "a", "g", "r", "e", "e">>
Never == <<"N", "e", "v", "e", "r">>
PaddedFour == <<" ", "4", " ">>
Male == <<"M", "a", "l", "e">>
Female == <<"F", "e", "m", "a", "l", "e">>
PaddedAge == <<" ", "A", "g", "e">>
Gender == <<"G", "e", "n", "d", "e", "r">>

OptionTexts == {StronglyAgree, Agree, Never, PaddedFour}

\* the option lists of at most MaxOptions options
OptionLists == UNION { [1..n -> OptionTexts] : n \in 0..MaxOptions }

ScenarioA == <<StronglyAgree, Agree, Neutral, Disagree>>

\* a field of the page: its title element (if any), the elements matching
\* CssSelector.OPTION and those matching CssSelector.MULTI_OPTION
Field(has_title, title, options, multi_options) ==
    [has_title |-> has_title, title |-> title, options |-> options,
     multi_options |-> multi_options]

NoField == Field(FALSE, <<>>, <<>>, <<>>)

\* a field shows radio buttons or checkboxes, or neither (a text field)
SelectFields ==
    { Field(t[1], t[2], o, <<>>) :
        t \in {<<FALSE, <<>>>>, <<TRUE, PaddedAge>>},
        o \in (OptionLists \cup {ScenarioA}) \ {<<>>} }
    \cup
    { Field(t[1], t[2], <<>>, o) :
        t \in {<<FALSE, <<>>>>, <<TRUE, PaddedAge>>},
        o \in OptionLists \cup {ScenarioA} }

(***************************************************************************)
(* get_question_text                                                       *)
(***************************************************************************)
get_question_text(f) == IF f.has_title THEN Strip(f.title) ELSE UnknownQuestion

(***************************************************************************)
(* select_option                                                           *)
(***************************************************************************)
\* a mutant: the answer is the stripped text
StrippedText(option_text) == Strip(option_text)

\* answer = selected_option.text
AnswerText(option_text) == option_text

\* a mutant: a list of one option raises too
ChoiceRaisesOnOne(options) == Len(options) <= 1

\* choice(options) raises IndexError
ChoiceRaises(options) == Len(options) = 0

\* what a call leaves alone when it ends or goes on inside select_option
SelectEnds(sel, how, g) ==
    /\ gate' = g
    /\ via' = how
    /\ selected' = sel
    /\ clicks' = Append(clicks, <<"option", sel>>)
    /\ ret' = <<get_question_text(field), AnswerText(field.options[sel])>>
    /\ spc' = "returned"
    /\ UNCHANGED <<field, buffer, prioritized_selected, remaining_count, k,
                   multi_calls, exc>>
    /\ UNCHANGED <<matchVars, csvVars, mainVars>>

\* lines 85-89, 95-98: the gate passes and an option is prioritized
SelectPrioritized ==
    /\ spc = "select_option"
    /\ \E r \in RandomDraws :
        /\ r < PRIORITY_PROBABILITY
        /\ find_prioritized_option(field.options, PRIORITIZED_CHOICES) # 0
        /\ SelectEnds(find_prioritized_option(field.options, PRIORITIZED_CHOICES),
                      "prioritized", TRUE)

\* whether the first step of select_option left selected_option None
NoneSelected(r) ==
    \/ ~(r < PRIORITY_PROBABILITY)
    \/ find_prioritized_option(field.options, PRIORITIZED_CHOICES) = 0

\* lines 92-98: choice(options) over the full list
SelectChoice ==
    /\ spc = "select_option"
    /\ \E r \in RandomDraws :
        /\ NoneSelected(r)
        /\ ~ChoiceRaises(field.options)
        /\ \E c \in 1..Len(field.options) :
            SelectEnds(c, "choice", r < PRIORITY_PROBABILITY)

\* lines 93, 99-100: choice([]) raises IndexError, select_multi_option is
\* called on the same field (lines 105-110)
SelectFallback ==
    /\ spc = "select_option"
    /\ \E r \in RandomDraws :
        /\ NoneSelected(r)
        /\ ChoiceRaises(field.options)
        /\ gate' = (r < PRIORITY_PROBABILITY)
    /\ multi_calls' = multi_calls + 1
    /\ buffer' = <<>>
    /\ prioritized_selected' = FALSE
    /\ k' = 1
    /\ spc' = "phaseA"
    /\ UNCHANGED <<field, via, selected, clicks, remaining_count, ret, exc>>
    /\ UNCHANGED <<matchVars, csvVars, mainVars>>

(***************************************************************************)
(* select_multi_option                                                     *)
(***************************************************************************)
\* lines 111-121, one option of the first loop: some prioritized choice
\* matches, a draw passes and the text is not in the buffer
PhaseASelect ==
    /\ spc = "phaseA"
    /\ k <= Len(field.multi_options)
    /\ LET option_text == Strip(field.multi_options[k]) IN
        /\ MultiMatching(option_text, PRIORITIZED_CHOICES) # {}
        /\ \E r \in RandomDraws : r < PRIORITY_PROBABILITY
        /\ ~InList(option_text, buffer)
        /\ clicks' = Append(clicks, <<"multi", k>>)
        /\ buffer' = Append(buffer, option_text)
        /\ prioritized_selected' = TRUE
    /\ k' = k + 1
    /\ UNCHANGED <<field, spc, gate, via, selected, remaining_count,
                   multi_calls, ret, exc>>
    /\ UNCHANGED <<matchVars, csvVars, mainVars>>

\* lines 111-116, one option of the first loop: no prioritized choice
\* matches, or every draw fails, or the text is in the buffer already
PhaseASkip ==
    /\ spc = "phaseA"
    /\ k <= Len(field.multi_options)
    /\ LET option_text == Strip(field.multi_options[k]) IN
        \/ MultiMatching(option_text, PRIORITIZED_CHOICES) = {}
        \/ \E r \in RandomDraws : ~(r < PRIORITY_PROBABILITY)
        \/ InList(option_text, buffer)
    /\ k' = k + 1
    /\ UNCHANGED <<field, spc, gate, via, selected, clicks, buffer,
                   prioritized_selected, remaining_count, multi_calls, ret, exc>>
    /\ UNCHANGED <<matchVars, csvVars, mainVars>>

\* a mutant: the second loop runs only as an extension
ExtensionOnly(selected_any, buffer_len, n, r) ==
    buffer_len < n /\ r < EXTENSION_PROBABILITY

\* line 124
PhaseBRuns(selected_any, buffer_len, n, r) ==
    ~selected_any \/ (buffer_len < n /\ r < EXTENSION_PROBABILITY)

Max(a, b) == IF a >= b THEN a ELSE b

\* lines 124-125: the second loop is entered, remaining_count is drawn
PhaseBEnter ==
    /\ spc = "phaseA"
    /\ k > Len(field.multi_options)
    /\ \E r \in RandomDraws :
        PhaseBRuns(prioritized_selected, Len(buffer), Len(field.multi_options), r)
    /\ \E c \in 1..Max(1, Len(field.multi_options) - Len(buffer)) :
        remaining_count' = c
    /\ k' = 0
    /\ spc' = "phaseB"
    /\ UNCHANGED <<field, gate, via, selected, clicks, buffer,
                   prioritized_selected, multi_calls, ret, exc>>
    /\ UNCHANGED <<matchVars, csvVars, mainVars>>

\* lines 133-134
MultiReturns ==
    /\ ret' = <<get_question_text(field), Join(AnswerSeparator, buffer)>>
    /\ spc' = "returned"
    /\ UNCHANGED <<field, gate, via, selected, clicks, buffer,
                   prioritized_selected, remaining_count, k, multi_calls, exc>>
    /\ UNCHANGED <<matchVars, csvVars, mainVars>>

\* lines 124, 133-134: the second loop is skipped
PhaseBSkipped ==
    /\ spc = "phaseA"
    /\ k > Len(field.multi_options)
    /\ \E r \in RandomDraws :
        ~PhaseBRuns(prioritized_selected, Len(buffer), Len(field.multi_options), r)
    /\ MultiReturns

\* lines 126-131, one iteration: the option drawn is not in the buffer
PhaseBPickNew ==
    /\ spc = "phaseB"
    /\ k < remaining_count
    /\ \E n \in 0..(Len(field.multi_options) - 1) :
        /\ ~InList(field.multi_options[n + 1], buffer)
        /\ clicks' = Append(clicks, <<"multi", n + 1>>)
        /\ buffer' = Append(buffer, field.multi_options[n + 1])
    /\ k' = k + 1
    /\ UNCHANGED <<field, spc, gate, via, selected, prioritized_selected,
                   remaining_count, multi_calls, ret, exc>>
    /\ UNCHANGED <<matchVars, csvVars, mainVars>>

\* lines 126-128, one iteration: the option drawn is in the buffer
PhaseBPickDuplicate ==
    /\ spc = "phaseB"
    /\ k < remaining_count
    /\ \E n \in 0..(Len(field.multi_options) - 1) :
        InList(field.multi_options[n + 1], buffer)
    /\ k' = k + 1
    /\ UNCHANGED <<field, spc, gate, via, selected, clicks, buffer,
                   prioritized_selected, remaining_count, multi_calls, ret, exc>>
    /\ UNCHANGED <<matchVars, csvVars, mainVars>>

\* line 127 on a field without checkboxes: randint(0, -1) raises ValueError,
\* which leaves select_multi_option and select_option
PhaseBRaises ==
    /\ spc = "phaseB"
    /\ k < remaining_count
    /\ Len(field.multi_options) = 0
    /\ exc' = "ValueError"
    /\ spc' = "raised"
    /\ UNCHANGED <<field, gate, via, selected, clicks, buffer,
                   prioritized_selected, remaining_count, k, multi_calls, ret>>
    /\ UNCHANGED <<matchVars, csvVars, mainVars>>

\* lines 126, 133-134: the second loop is over
PhaseBDone ==
    /\ spc = "phaseB"
    /\ k = remaining_count
    /\ MultiReturns

SelectStep ==
    \/ SelectPrioritized
    \/ SelectChoice
    \/ SelectFallback
    \/ PhaseASelect
    \/ PhaseASkip
    \/ PhaseBEnter
    \/ PhaseBSkipped
    \/ PhaseBPickNew
    \/ PhaseBPickDuplicate
    \/ PhaseBRaises
    \/ PhaseBDone

(***************************************************************************)
(* Python dicts, as lists of <<key, value>> in insertion order.            *)
(***************************************************************************)
Keys(d) == [n \in 1..Len(d) |-> d[n][1]]

HasKey(d, key) == \E n \in 1..Len(d) : d[n][1] = key

\* d[key] = value
DictSet(d, key, value) ==
    IF HasKey(d, key)
    THEN [n \in 1..Len(d) |-> IF d[n][1] = key THEN <<key, value>> ELSE d[n]]
    ELSE Append(d, <<key, value>>)

\* d.get(key, default)
DictGet(d, key, default) ==
    IF HasKey(d, key)
    THEN d[CHOOSE n \in 1..Len(d) : d[n][1] = key][2]
    ELSE default

RECURSIVE DictUpdate(_, _)
\* d.update(other)
DictUpdate(d, other) ==
    IF other = <<>> THEN d
    ELSE DictUpdate(DictSet(d, other[1][1], other[1][2]), Tail(other))

(***************************************************************************)
(* save_to_csv                                                             *)
(***************************************************************************)
\* a mutant: the header is written by every call
WritesHeaderAlways(exists) == TRUE

\* line 147
WritesHeader(exists) == ~exists

\* line 143
Fieldnames(data) == <<TimestampColumn>> \o Keys(data)

\* a row of the file: its cells, and the fieldnames of the writer that wrote it
Row(kind, fieldnames, cells) ==
    [kind |-> kind, fieldnames |-> fieldnames, cells |-> cells]

\* csv.DictWriter.writerow: the value of each fieldname, '' when absent
RowCells(fieldnames, row_data) ==
    [n \in 1..Len(fieldnames) |-> DictGet(row_data, fieldnames[n], <<>>)]

\* csv.DictWriter raises ValueError on a key that is no fieldname
ExtraKeys(fieldnames, row_data) ==
    { row_data[n][1] : n \in 1..Len(row_data) } \ { fieldnames[n] : n \in 1..Len(fieldnames) }

\* the file after save_to_csv(data) at time now
Saved(exists, rows, data, now) ==
    LET fieldnames == Fieldnames(data)
        row_data == DictUpdate(<< <<TimestampColumn, now>> >>, data)
        header == IF WritesHeader(exists)
                  THEN << Row("header", fieldnames, fieldnames) >>
                  ELSE << >>
    IN  rows \o header \o << Row("data", fieldnames, RowCells(fieldnames, row_data)) >>

\* lines 137-155
save_to_csv(data, now) ==
    /\ ExtraKeys(Fieldnames(data), DictUpdate(<< <<TimestampColumn, now>> >>, data)) = {}
    /\ csv' = Saved(file_exists, csv, data, now)
    /\ file_exists' = TRUE

\* datetime.now().strftime('%Y-%m-%d %H:%M:%S') at two moments
Timestamps ==
    { <<"2", "0", "2", "6", "-", "1", "1", "-", "0", "1", " ", "1", "0", ":", "0", "0", ":", "0", "0">>,
      <<"2", "0", "2", "6", "-", "1", "1", "-", "0", "1", " ", "1", "0", ":", "0", "0", ":", "0", "5">> }

DataRows(rows) == { n \in 1..Len(rows) : rows[n].kind = "data" }
HeaderRows(rows) == { n \in 1..Len(rows) : rows[n].kind = "header" }

(***************************************************************************)
(* main                                                                    *)
(***************************************************************************)
\* a mutant: the loop runs once more
LoopContinuesOnceMore(pass, n) == pass <= n

\* line 181: for i in range(count)
LoopContinues(pass, n) == pass < n

\* the steps of main inside the try of lines 182-194
InTry == {"get", "fill_form", "field", "submit", "save", "sleep"}

\* line 179: input() gives an integer
Prompt ==
    /\ pc = "prompt"
    /\ \E n \in (-1)..MaxCount : count' = n
    /\ i' = 0
    /\ pc' = "loop"
    /\ UNCHANGED <<all_fields, fidx, form_data, driver, crash, events, interrupted>>
    /\ UNCHANGED <<matchVars, selVars, csvVars>>

\* line 179: input() gives no integer, int() raises ValueError
PromptInvalid ==
    /\ pc = "prompt"
    /\ pc' = "crashed"
    /\ crash' = "ValueError"
    /\ UNCHANGED <<count, i, all_fields, fidx, form_data, driver, events, interrupted>>
    /\ UNCHANGED <<matchVars, selVars, csvVars>>

\* line 181: the next pass begins
LoopNext ==
    /\ pc = "loop"
    /\ LoopContinues(i, count)
    /\ pc' = "get"
    /\ UNCHANGED <<count, i, all_fields, fidx, form_data, driver, crash, events, interrupted>>
    /\ UNCHANGED <<matchVars, selVars, csvVars>>

\* line 181: the range is exhausted
LoopExit ==
    /\ pc = "loop"
    /\ ~LoopContinues(i, count)
    /\ pc' = "quit"
    /\ UNCHANGED <<count, i, all_fields, fidx, form_data, driver, crash, events, interrupted>>
    /\ UNCHANGED <<matchVars, selVars, csvVars>>

\* lines 183-184: driver.get(GOOGLE_FORM_URL)
Get ==
    /\ pc = "get"
    /\ events' = Append(events, <<"get", i, 0>>)
    /\ pc' = "fill_form"
    /\ UNCHANGED <<count, i, all_fields, fidx, form_data, driver, crash, interrupted>>
    /\ UNCHANGED <<matchVars, selVars, csvVars>>

\* lines 160-163: fill_form begins
FillStart ==
    /\ pc = "fill_form"
    /\ form_data' = <<>>
    /\ fidx' = 1
    /\ pc' = "field"
    /\ UNCHANGED <<count, i, all_fields, driver, crash, events, interrupted>>
    /\ UNCHANGED <<matchVars, selVars, csvVars>>

\* line 167: select_option(field) is called
FieldCall ==
    /\ pc = "field"
    /\ spc = "idle"
    /\ fidx <= Len(all_fields)
    /\ field' = all_fields[fidx]
    /\ spc' = "select_option"
    /\ gate' = FALSE
    /\ via' = "none"
    /\ selected' = 0
    /\ clicks' = <<>>
    /\ buffer' = <<>>
    /\ prioritized_selected' = FALSE
    /\ remaining_count' = 0
    /\ k' = 0
    /\ multi_calls' = 0
    /\ ret' = <<>>
    /\ exc' = ""
    /\ UNCHANGED <<mainVars, matchVars, csvVars>>

\* lines 167-168: select_option returned
FieldReturn ==
    /\ pc = "field"
    /\ spc = "returned"
    /\ form_data' = DictSet(form_data, ret[1], ret[2])
    /\ events' = Append(events, <<"answer", i, fidx>>)
    /\ fidx' = fidx + 1
    /\ spc' = "idle"
    /\ UNCHANGED <<count, i, all_fields, pc, driver, crash, interrupted>>
    /\ UNCHANGED <<field, gate, via, selected, clicks, buffer, prioritized_selected,
                   remaining_count, k, multi_calls, ret, exc>>
    /\ UNCHANGED <<matchVars, csvVars>>

\* line 167: select_option raised; no handler of main catches a ValueError
FieldRaised ==
    /\ pc = "field"
    /\ spc = "raised"
    /\ pc' = "crashed"
    /\ crash' = exc
    /\ spc' = "idle"
    /\ UNCHANGED <<count, i, all_fields, fidx, form_data, driver, events, interrupted>>
    /\ UNCHANGED <<field, gate, via, selected, clicks, buffer, prioritized_selected,
                   remaining_count, k, multi_calls, ret, exc>>
    /\ UNCHANGED <<matchVars, csvVars>>

\* lines 165, 170: every field is answered, fill_form returns
FillDone ==
    /\ pc = "field"
    /\ spc = "idle"
    /\ fidx > Len(all_fields)
    /\ pc' = "submit"
    /\ UNCHANGED <<count, i, all_fields, fidx, form_data, driver, crash, events, interrupted>>
    /\ UNCHANGED <<matchVars, selVars, csvVars>>

\* lines 172-174, 187: apply_form clicks the send button
Submit ==
    /\ pc = "submit"
    /\ events' = Append(events, <<"submit", i, 0>>)
    /\ pc' = "save"
    /\ UNCHANGED <<count, i, all_fields, fidx, form_data, driver, crash, interrupted>>
    /\ UNCHANGED <<matchVars, selVars, csvVars>>

\* line 174: the page has no send button, find_element raises
SubmitRaises ==
    /\ pc = "submit"
    /\ pc' = "crashed"
    /\ crash' = "NoSuchElementException"
    /\ UNCHANGED <<count, i, all_fields, fidx, form_data, driver, events, interrupted>>
    /\ UNCHANGED <<matchVars, selVars, csvVars>>

\* line 188: save_to_csv(form_data)
Save ==
    /\ pc = "save"
    /\ \E now \in Timestamps : save_to_csv(form_data, now)
    /\ events' = Append(events, <<"append", i, 0>>)
    /\ pc' = "sleep"
    /\ UNCHANGED <<count, i, all_fields, fidx, form_data, driver, crash, interrupted>>
    /\ UNCHANGED <<matchVars, selVars>>

\* lines 190-194, 181: the summary, time.sleep(2), and back to the loop
Sleep ==
    /\ pc = "sleep"
    /\ i' = i + 1
    /\ pc' = "loop"
    /\ UNCHANGED <<count, all_fields, fidx, form_data, driver, crash, events, interrupted>>
    /\ UNCHANGED <<matchVars, selVars, csvVars>>

\* lines 195-197: a KeyboardInterrupt inside the try is caught
InterruptInTry ==
    /\ pc \in InTry
    /\ pc' = "handler"
    /\ spc' = "idle"
    /\ interrupted' = TRUE
    /\ UNCHANGED <<count, i, all_fields, fidx, form_data, driver, crash, events>>
    /\ UNCHANGED <<field, gate, via, selected, clicks, buffer, prioritized_selected,
                   remaining_count, k, multi_calls, ret, exc>>
    /\ UNCHANGED <<matchVars, csvVars>>

\* lines 179, 181, 196, 199: a KeyboardInterrupt outside the try leaves main
InterruptOutsideTry ==
    /\ pc \in {"prompt", "loop", "handler", "quit"}
    /\ pc' = "crashed"
    /\ crash' = "KeyboardInterrupt"
    /\ interrupted' = TRUE
    /\ UNCHANGED <<count, i, all_fields, fidx, form_data, driver, events>>
    /\ UNCHANGED <<matchVars, selVars, csvVars>>

\* lines 196-197: the handler prints and breaks
Handler ==
    /\ pc = "handler"
    /\ pc' = "quit"
    /\ UNCHANGED <<count, i, all_fields, fidx, form_data, driver, crash, events, interrupted>>
    /\ UNCHANGED <<matchVars, selVars, csvVars>>

\* line 199: driver.quit()
Quit ==
    /\ pc = "quit"
    /\ driver' = "quit"
    /\ pc' = "done"
    /\ UNCHANGED <<count, i, all_fields, fidx, form_data, crash, events, interrupted>>
    /\ UNCHANGED <<matchVars, selVars, csvVars>>

(***************************************************************************)
(* The specification of a run of main: the driver is started, main waits   *)
(* at the prompt, the log file does not exist.                             *)
(***************************************************************************)
Age == <<"A", "g", "e">>

\* the pages main may load: a radio field and a checkbox field; a text field
\* alone; no field; two radio fields whose titles strip to the same text
Forms ==
    { << Field(TRUE, PaddedAge, <<Agree, Never>>, <<>>),
         Field(TRUE, Gender, <<>>, <<Never, PaddedFour>>) >>,
      << Field(FALSE, <<>>, <<>>, <<>>) >>,
      << >>,
      << Field(TRUE, PaddedAge, <<Agree>>, <<>>),
         Field(TRUE, Age, <<Never>>, <<>>) >> }

MatchOff ==
    /\ m_pc = "off"
    /\ m_text = <<>>
    /\ m_choices = {}
    /\ m_single = FALSE
    /\ m_multi = FALSE

SelectIdle ==
    /\ field = NoField
    /\ spc = "idle"
    /\ gate = FALSE
    /\ via = "none"
    /\ selected = 0
    /\ clicks = <<>>
    /\ buffer = <<>>
    /\ prioritized_selected = FALSE
    /\ remaining_count = 0
    /\ k = 0
    /\ multi_calls = 0
    /\ ret = <<>>
    /\ exc = ""

NoFile ==
    /\ file_exists = FALSE
    /\ csv = <<>>

MainOff ==
    /\ pc = "off"
    /\ count = 0
    /\ i = 0
    /\ all_fields = <<>>
    /\ fidx = 0
    /\ form_data = <<>>
    /\ driver = "none"
    /\ crash = ""
    /\ events = <<>>
    /\ interrupted = FALSE

Init ==
    /\ MatchOff
    /\ SelectIdle
    /\ NoFile
    /\ pc = "prompt"
    /\ count = 0
    /\ i = 0
    /\ all_fields \in Forms
    /\ fidx = 0
    /\ form_data = <<>>
    /\ driver = "running"
    /\ crash = ""
    /\ events = <<>>
    /\ interrupted = FALSE

Next ==
    \/ Prompt
    \/ PromptInvalid
    \/ LoopNext
    \/ LoopExit
    \/ Get
    \/ FillStart
    \/ FieldCall
    \/ FieldReturn
    \/ FieldRaised
    \/ FillDone
    \/ Submit
    \/ SubmitRaises
    \/ Save
    \/ Sleep
    \/ InterruptInTry
    \/ InterruptOutsideTry
    \/ Handler
    \/ Quit
    \/ SelectStep

Spec == Init /\ [][Next]_vars

(***************************************************************************)
(* The specification of one call of select_option on any field.            *)
(***************************************************************************)
InitSelect ==
    /\ MatchOff
    /\ NoFile
    /\ MainOff
    /\ field \in SelectFields
    /\ spc = "select_option"
    /\ gate = FALSE
    /\ via = "none"
    /\ selected = 0
    /\ clicks = <<>>
    /\ buffer = <<>>
    /\ prioritized_selected = FALSE
    /\ remaining_count = 0
    /\ k = 0
    /\ multi_calls = 0
    /\ ret = <<>>
    /\ exc = ""

SpecSelect == InitSelect /\ [][SelectStep]_vars

(***************************************************************************)
(* The specification of a sequence of save_to_csv calls.                   *)
(***************************************************************************)
Q1 == <<"Q", "1">>
Q2 == <<"Q", "2">>

\* the records appended: no question, one, two in either order
FormDatas ==
    { << >>,
      << <<Q1, Agree>> >>,
      << <<Q1, Never>> >>,
      << <<Q2, Agree>> >>,
      << <<Q1, Agree>>, <<Q2, Never>> >>,
      << <<Q2, Never>>, <<Q1, Agree>> >> }

InitCsv ==
    /\ MatchOff
    /\ SelectIdle
    /\ MainOff
    /\ NoFile

SaveCall ==
    /\ Cardinality(DataRows(csv)) < MaxAppends
    /\ \E data \in FormDatas, now \in Timestamps : save_to_csv(data, now)
    /\ UNCHANGED <<matchVars, selVars, mainVars>>

SpecCsv == InitCsv /\ [][SaveCall]_vars

(***************************************************************************)
(* The specification of one evaluation of the preference match, by either  *)
(* policy, on any text and any set of prioritized choices.                 *)
(***************************************************************************)
MatchTexts ==
    { <<>>, Agree, StronglyAgree, Disagree, Never, Male, PaddedFour,
      <<"A", "G", "R", "E", "E">>,
      <<" ", "a", "g", "r", "e", "e", "\t">>,
      <<"5">>,
      <<"F", "E", "M">> }

MatchChoices ==
    { Agree, <<"a", "g", "r", "e", "e">>, Female, <<"F", "E", "M", "A", "L", "E">>, <<"4">> }

InitMatch ==
    /\ SelectIdle
    /\ NoFile
    /\ MainOff
    /\ m_pc = "start"
    /\ m_text \in MatchTexts
    /\ m_choices \in SUBSET MatchChoices
    /\ m_single = FALSE
    /\ m_multi = FALSE

\* find_prioritized_option on the one option of text m_text
MatchSingle ==
    /\ m_pc = "start"
    /\ m_single' = (find_prioritized_option(<<m_text>>, m_choices) # 0)
    /\ m_pc' = "single"
    /\ UNCHANGED <<m_text, m_choices, m_multi>>
    /\ UNCHANGED <<selVars, csvVars, mainVars>>

\* the test of the first loop of select_multi_option on the same option
MatchMulti ==
    /\ m_pc = "single"
    /\ m_multi' = (MultiMatching(Strip(m_text), m_choices) # {})
    /\ m_pc' = "done"
    /\ UNCHANGED <<m_text, m_choices, m_single>>
    /\ UNCHANGED <<selVars, csvVars, mainVars>>

NextMatch == MatchSingle \/ MatchMulti

SpecMatch == InitMatch /\ [][NextMatch]_vars

(***************************************************************************)
(* The properties.                                                         *)
(***************************************************************************)
\* the text without its surrounding whitespace: from its first to its last
\* character that is no whitespace
Trimmed(t) ==
    LET solid == { n \in 1..Len(t) : t[n] \notin Whitespace } IN
    IF solid = {} THEN <<>>
    ELSE SubSeq(t, CHOOSE n \in solid : \A m \in solid : n <= m,
                   CHOOSE n \in solid : \A m \in solid : n >= m)

\* c and d are the same character up to letter case
SameLetter(c, d) ==
    \/ c = d
    \/ \E n \in 1..Len(Uppers) : {c, d} = {Uppers[n], Lowers[n]}

\* x occurs in y at some position, letter case ignored
OccursIn(x, y) ==
    \E a \in 0..Len(y) :
        /\ a + Len(x) <= Len(y)
        /\ \A n \in 1..Len(x) : SameLetter(x[n], y[a + n])

\* some preference holds the trimmed text or is held by it
Preferred(t, S) ==
    \E p \in S : OccursIn(p, Trimmed(t)) \/ OccursIn(Trimmed(t), p)

SwapCaseChar(c) ==
    IF \E n \in 1..Len(Uppers) : Uppers[n] = c
    THEN Lowers[CHOOSE n \in 1..Len(Uppers) : Uppers[n] = c]
    ELSE IF \E n \in 1..Len(Lowers) : Lowers[n] = c
         THEN Uppers[CHOOSE n \in 1..Len(Lowers) : Lowers[n] = c]
         ELSE c

SwapCase(s) == [n \in 1..Len(s) |-> SwapCaseChar(s[n])]

\* C1: a call of select_option on a field with at least one single-select
\* option chooses one option of the list, clicks that option once and no
\* other, and returns that option's text as the answer.
SingleChoiceTotality ==
    field.options # <<>> =>
        /\ spc \in {"select_option", "returned"}
        /\ spc = "select_option" => clicks = <<>>
        /\ spc = "returned" =>
            /\ selected \in 1..Len(field.options)
            /\ clicks = << <<"option", selected>> >>
            /\ Len(ret) = 2
            /\ ret[2] = field.options[selected]

SingleChoiceWitness ==
    /\ spc = "returned"
    /\ Len(field.options) = MaxOptions
    /\ via = "choice"
    /\ selected = MaxOptions
    /\ ret[2] = PaddedFour

\* C2: when the gate passes and some option is preferred, select_option
\* takes the first preferred option in list order; choice over the full
\* list is used only when the gate fails or no option is preferred.
FirstPreferredWins ==
    (spc = "returned" /\ field.options # <<>>) =>
        LET preferred == { n \in 1..Len(field.options) :
                             Preferred(field.options[n], PRIORITIZED_CHOICES) }
        IN  /\ via \in {"prioritized", "choice"}
            /\ (gate /\ preferred # {}) =>
                 /\ via = "prioritized"
                 /\ selected \in preferred
                 /\ \A n \in preferred : selected <= n
            /\ via = "choice" => (~gate \/ preferred = {})
            /\ (field.options = ScenarioA /\ gate) => ret[2] = StronglyAgree

FirstPreferredWitness ==
    /\ spc = "returned"
    /\ field.options = ScenarioA
    /\ gate
    /\ via = "prioritized"
    /\ ret[2] = StronglyAgree

\* C3: the match of either policy holds exactly when some preference, letter
\* case ignored, is a substring of the trimmed text or holds it as a
\* substring; swapping the letter case of the text and of the preferences
\* does not change it.
PreferenceMatchSymmetric ==
    /\ m_pc \in {"single", "done"} =>
        /\ m_single = Preferred(m_text, m_choices)
        /\ m_single = (find_prioritized_option(<<SwapCase(m_text)>>, m_choices) # 0)
        /\ m_single = (find_prioritized_option(
                          <<m_text>>, { SwapCase(p) : p \in m_choices }) # 0)
    /\ m_pc = "done" =>
        /\ m_multi = Preferred(m_text, m_choices)
        /\ m_multi = (MultiMatching(Strip(SwapCase(m_text)), m_choices) # {})
        /\ m_multi = (MultiMatching(Strip(m_text),
                                    { SwapCase(p) : p \in m_choices }) # {})

PreferenceMatchWitness ==
    /\ m_pc = "done"
    /\ m_text = <<" ", "a", "g", "r", "e", "e", "\t">>
    /\ m_choices = {Agree}
    /\ m_single
    /\ m_multi

\* C4: select_multi_option on a field with at least one multi-select option
\* returns with at least one text in the buffer.
MultiChoiceNonEmpty ==
    (spc = "returned" /\ multi_calls > 0 /\ field.multi_options # <<>>) =>
        /\ Len(buffer) >= 1
        /\ ret[2] = Join(AnswerSeparator, buffer)

MultiChoiceWitness ==
    /\ spc = "returned"
    /\ multi_calls = 1
    /\ Len(field.multi_options) = MaxOptions
    /\ ~prioritized_selected
    /\ remaining_count = MaxOptions
    /\ Len(buffer) = 1

\* C5: during select_multi_option the buffer holds no text twice, holds no
\* more texts than the field has distinct option texts, and holds only texts
\* of options of the field.
BufferDistinctOptionTexts ==
    multi_calls > 0 =>
        LET texts == { field.multi_options[n] : n \in 1..Len(field.multi_options) }
        IN  /\ \A a, b \in 1..Len(buffer) : a # b => buffer[a] # buffer[b]
            /\ Len(buffer) <= Cardinality(texts)
            /\ \A a \in 1..Len(buffer) : buffer[a] \in texts

\* C6: the file has one header row, the first row, with the columns
\* Timestamp and the keys of the first record; a call on an existing file
\* adds one data row and no header, a call on a missing file the header and
\* one data row.
HeaderOnceFirst ==
    /\ [](csv # <<>> =>
            /\ file_exists
            /\ HeaderRows(csv) = {1}
            /\ Len(csv) >= 2
            /\ csv[1].cells = csv[2].fieldnames
            /\ Head(csv[1].cells) = TimestampColumn)
    /\ [][/\ Cardinality(DataRows(csv')) = Cardinality(DataRows(csv)) + 1
          /\ csv'[Len(csv')].kind = "data"
          /\ file_exists =>
                /\ Len(csv') = Len(csv) + 1
                /\ SubSeq(csv', 1, Len(csv)) = csv
          /\ ~file_exists => Len(csv') = 2]_csvVars

HeaderOnceWitness ==
    /\ Len(csv) = MaxAppends + 1
    /\ csv[1].cells = <<TimestampColumn, Q1>>
    /\ csv[3].fieldnames = <<TimestampColumn, Q2, Q1>>

\* C7: every data row of the file has exactly the columns of the header
\* written by the first call.
RowsHaveHeaderColumns ==
    \A n \in DataRows(csv) :
        /\ csv[n].fieldnames = csv[1].cells
        /\ Len(csv[n].cells) = Len(csv[1].cells)

\* C8: an interrupt that arrives once the driver is started never leaves
\* main as a crash, and when the run has ended the driver is released.
InterruptReleasesDriver ==
    interrupted =>
        /\ ~(pc = "crashed" /\ crash = "KeyboardInterrupt")
        /\ pc \in {"done", "crashed"} => driver = "quit"

\* C9: a field with a single-select option never reaches
\* select_multi_option; on a field without one, no single-select option is
\* clicked, select_multi_option is called once, and what it returns is what
\* select_option returns.
DispatchByOptions ==
    /\ field.options # <<>> =>
        /\ multi_calls = 0
        /\ spc \notin {"phaseA", "phaseB", "raised"}
        /\ \A n \in 1..Len(clicks) : clicks[n][1] = "option"
    /\ (field.options = <<>> /\ spc \notin {"idle", "select_option"}) =>
        /\ multi_calls = 1
        /\ selected = 0
        /\ \A n \in 1..Len(clicks) : clicks[n][1] = "multi"
        /\ spc = "returned" =>
             ret = <<get_question_text(field), Join(AnswerSeparator, buffer)>>

DispatchWitness ==
    /\ field.options = <<>>
    /\ Len(field.multi_options) = 2
    /\ spc = "returned"
    /\ gate
    /\ multi_calls = 1
    /\ Len(buffer) = 2

\* the events of pass p on a page of n fields
PassEvents(p, n) ==
    << <<"get", p, 0>> >> \o [f \in 1..n |-> <<"answer", p, f>>]
        \o << <<"submit", p, 0>>, <<"append", p, 0>> >>

RECURSIVE RunEvents(_, _, _)
\* the events of passes p, p + 1, ..., last - 1
RunEvents(p, last, n) ==
    IF p >= last THEN <<>> ELSE PassEvents(p, n) \o RunEvents(p + 1, last, n)

\* C10: the passes run one after the other: in each pass the fields are
\* answered in order, then comes the submit, then the one append; the data
\* rows of the run are the appends made, never more than count.
PassesSequential ==
    LET all == RunEvents(0, count, Len(all_fields))
        appends == { n \in 1..Len(events) : events[n][1] = "append" }
    IN  /\ Len(events) <= Len(all)
        /\ events = SubSeq(all, 1, Len(events))
        /\ Cardinality(DataRows(csv)) = Cardinality(appends)
        /\ Cardinality(DataRows(csv)) <= Max(count, 0)

PassesSequentialWitness ==
    /\ pc = "done"
    /\ count = MaxCount
    /\ Len(all_fields) = 2
    /\ Cardinality(DataRows(csv)) = MaxCount
    /\ ~interrupted

=============================================================================
